---- MODULE Spec2Model ----
\* A state-machine model of the wellness tracker of src/index.tsx: the App
\* component's state, its event handlers, the asynchronous report generation
\* and the persistent store behind useStickyState.
\*
\* JavaScript objects are modelled with their identity: a day of the weekly
\* log is a reference into `heap`, so that a shallow copy ([...weeklyLog])
\* shares the day objects with the array it was copied from.
EXTENDS Integers, Sequences, FiniteSets, TLC

\* ---------------------------------------------------------------- bounds
\* Number of edit events (profile, day, food, metrics) handled in a run.
MaxEdits == 1
\* Cap on the number of provider calls in flight.
MaxInflight == 2
\* Number of times the storage is damaged from outside (it runs full, or a
\* text that is not JSON is written under a key) in a run.
MaxFaults == 1
\* Most pages that the report body makes an exported document grow to.
MaxPages == 2
\* The small weights that calculateProgress is applied to on its own.
MaxWeight == 4

\* ---------------------------------------------------------------- values
\* A JavaScript number as stored in a weight or a profile field: a number,
\* NaN, or (after a JSON round trip of NaN) null.
Num(n) == [k |-> "num", v |-> n, s |-> <<>>]
NaN == [k |-> "nan", v |-> 0, s |-> <<>>]
JsNull == [k |-> "null", v |-> 0, s |-> <<>>]
\* A string held in a field that the code types as a number (the value of
\* an <input>), as a sequence of characters.
Str(s) == [k |-> "str", v |-> 0, s |-> s]

\* null for Profile and Summary
NULL == [isNull |-> TRUE]

DigitChars == {"0", "1", "2", "3", "4", "5", "6", "7", "8", "9"}

DigitVal(c) ==
    CASE c = "0" -> 0 [] c = "1" -> 1 [] c = "2" -> 2 [] c = "3" -> 3
      [] c = "4" -> 4 [] c = "5" -> 5 [] c = "6" -> 6 [] c = "7" -> 7
      [] c = "8" -> 8 [] c = "9" -> 9

IsDigits(s) == s # <<>> /\ \A i \in 1..Len(s) : s[i] \in DigitChars

RECURSIVE ParseNat(_)
ParseNat(s) ==
    IF s = <<>> THEN 0
    ELSE 10 * ParseNat(SubSeq(s, 1, Len(s) - 1)) + DigitVal(s[Len(s)])

\* parseFloat on the value of an <input type="number">: an integer literal
\* with an optional sign, or anything else (the empty string included).
parseFloat(s) ==
    IF IsDigits(s) THEN Num(ParseNat(s))
    ELSE IF Len(s) > 1 /\ s[1] = "-" /\ IsDigits(Tail(s)) THEN Num(0 - ParseNat(Tail(s)))
    ELSE NaN

\* ToNumber, as applied by a relational operator to one operand
ToNumber(x) ==
    CASE x.k = "num" -> x
      [] x.k = "nan" -> NaN
      [] x.k = "null" -> Num(0)
      [] x.k = "str" -> IF x.s = <<>> THEN Num(0) ELSE parseFloat(x.s)

\* x > 0 and x <= 0 in JavaScript (false whenever x converts to NaN)
GtZero(x) == ToNumber(x).k = "num" /\ ToNumber(x).v > 0
LeZero(x) == ToNumber(x).k = "num" /\ ToNumber(x).v <= 0

\* truthiness of a number-or-string value, and of a string
TruthyVal(x) ==
    CASE x.k = "num" -> x.v # 0
      [] x.k = "nan" -> FALSE
      [] x.k = "null" -> FALSE
      [] x.k = "str" -> x.s # <<>>
Truthy(str) == str # ""

\* String.prototype.trim on a sequence of characters
RECURSIVE TrimLeft(_)
TrimLeft(s) == IF s # <<>> /\ s[1] = " " THEN TrimLeft(Tail(s)) ELSE s
RECURSIVE TrimRight(_)
TrimRight(s) ==
    IF s # <<>> /\ s[Len(s)] = " " THEN TrimRight(SubSeq(s, 1, Len(s) - 1)) ELSE s
trim(s) == TrimRight(TrimLeft(s))

\* JSON.parse(JSON.stringify(x)) of a number or string: NaN becomes null
JsonValue(x) == IF x.k = "nan" THEN JsNull ELSE x

\* ---------------------------------------------------------------- data
dayNames == <<"Lunes", "Martes", "Miercoles", "Jueves", "Viernes", "Sabado", "Domingo">>

FoodNames == {"breakfast", "lunch", "snack", "dinner", "other"}
MetricNames == {"strength", "measurements", "bmi", "dailyActivity"}
ActivityLevels == {"Sedentario", "Ligero", "Moderado", "Activo", "Muy Activo"}

initialDailyLog ==
    [weight |-> Num(0), food |-> [f \in FoodNames |-> ""], mood |-> "",
     activityLevel |-> "Moderado"]

initialMetrics == [m \in MetricNames |-> ""]

initialProfile ==
    [name |-> <<>>, age |-> Num(0), objective |-> <<>>,
     initialWeight |-> Num(0), weightGoal |-> Num(0)]

\* Object identities of the day objects. 1..7 are the objects that the
\* module-level constant initialWeeklyLog holds; 8..14 and 15..21 are the
\* objects allocated for each position by JSON.parse and by object spreads.
Days == 1..7
Refs == 1..21
\* The constant built with Array(6).
initialWeeklyLogShort == [i \in 1..6 |-> i]
initialWeeklyLog == [i \in Days |-> i]
AllocA(i) == 7 + i
AllocB(i) == 14 + i

JsonDay(d) == [d EXCEPT !.weight = JsonValue(@)]
JsonProfile(p) ==
    IF p = NULL THEN NULL
    ELSE [name |-> p.name, age |-> JsonValue(p.age), objective |-> p.objective,
          initialWeight |-> JsonValue(p.initialWeight),
          weightGoal |-> JsonValue(p.weightGoal)]

\* ---------------------------------------------------------------- inputs
\* Values typed into the form fields.
NameInputs == {<<>>, <<" ">>, <<"A">>}
ObjectiveInputs == {<<>>, <<"o">>}
NumberInputs == {<<>>, <<"-", "5">>, <<"8", "0">>, <<"1", "0", "0">>}
WeightInputs == {<<>>, <<"-", "1">>, <<"0">>, <<"6", "8">>}
TextInputs == {"", "x"}
ActivityInputs == {"Moderado", "Activo"}
\* Texts the provider returns.
Replies == {"r1", "r2"}

\* ---------------------------------------------------------------- state
VARIABLES
    view,              \* 'profile' | 'tracker'            (sticky: app-view)
    profile,           \* UserProfile | null               (sticky: user-profile)
    weeklyLog,         \* array of 7 day-object references (sticky: weekly-log)
    heap,              \* the day objects, by reference
    metrics,           \* Metrics                          (sticky: user-metrics)
    currentDayIndex,   \* 0..6
    summary,           \* Summary | null
    loading,           \* boolean
    errors,            \* keys of the Errors object
    inflight,          \* provider calls whose promise has not settled
    alert,             \* the window.alert that the last event raised, or none
    store,             \* window.localStorage, one entry per key
    edits,             \* number of edit events so far
    faults,            \* number of times the storage was damaged so far
    doc,               \* the jsPDF document of the export that was started last
    call               \* a call of calculateProgress on its own: arguments, result

vars ==
    <<view, profile, weeklyLog, heap, metrics, currentDayIndex, summary, loading,
      errors, inflight, alert, store, edits, faults, doc, call>>

\* The weekly log by value: what weeklyLog[i] reads as, for each index.
LogOf(h, wl) == [i \in DOMAIN wl |-> h[wl[i]]]
Log == LogOf(heap, weeklyLog)

\* Day objects reachable from the state or from the module constant.
Live ==
    {weeklyLog[i] : i \in DOMAIN weeklyLog}
        \cup {initialWeeklyLog[i] : i \in DOMAIN initialWeeklyLog}
\* The heap once the objects that nothing references any more are reclaimed.
Swept == [r \in Refs |-> IF r \in Live THEN heap[r] ELSE initialDailyLog]

\* No export was started, and no separate call of calculateProgress is made.
NoDoc == [phase |-> "none"]
NoCall == [made |-> FALSE]

\* ------------------------------------------------------- persistent store
\* localStorage: per key, <<>> when the key is absent, else <<value>> for the
\* value that JSON.parse gives back; `unreadable` holds the keys whose text
\* JSON.parse rejects, and setItem throws while the storage is `full`.
StoreKeys == {"view", "profile", "log", "metrics"}

EmptyStore ==
    [view |-> <<>>, profile |-> <<>>, log |-> <<>>, metrics |-> <<>>, unreadable |-> {},
     full |-> FALSE]

\* The effect of useStickyState: every key holds the JSON of its value.
Saved(v, p, l, m) ==
    [view |-> <<v>>, profile |-> <<JsonProfile(p)>>,
     log |-> <<[i \in DOMAIN l |-> JsonDay(l[i])]>>, metrics |-> <<m>>,
     unreadable |-> {}, full |-> FALSE]

\* getItem gives a text and JSON.parse accepts it.
Readable(s, key) == key \notin s.unreadable /\ s[key] # <<>>

\* The initializer of useStickyState, per key: the parsed value, or the
\* default when the key is absent or when reading it throws.
LoadView(s) == IF Readable(s, "view") THEN s.view[1] ELSE "profile"
LoadProfile(s) == IF Readable(s, "profile") THEN s.profile[1] ELSE NULL
\* The initializer whose catch block returns nothing.
LoadMetricsNoDefault(s) == IF Readable(s, "metrics") THEN s.metrics[1] ELSE NULL
LoadMetrics(s) == IF Readable(s, "metrics") THEN s.metrics[1] ELSE initialMetrics
\* A stored log is parsed into fresh objects; the default is the constant itself.
LoadWeeklyLog(s) ==
    IF Readable(s, "log") THEN [i \in DOMAIN s.log[1] |-> AllocA(i)] ELSE initialWeeklyLog
LoadHeap(s) ==
    [r \in Refs |->
        IF Readable(s, "log") /\ r - 7 \in DOMAIN s.log[1]
        THEN s.log[1][r - 7] ELSE initialDailyLog]

\* The mount effect: a profile with a name opens the tracker.
MountView(v, p) == IF p # NULL /\ p.name # <<>> THEN "tracker" ELSE v

\* A store left by an earlier session in which a profile was filled and saved.
SavedProfile ==
    [name |-> <<"A">>, age |-> Str(<<"8", "0">>), objective |-> <<"o">>,
     initialWeight |-> Str(<<"8", "0">>), weightGoal |-> Str(<<"1", "0", "0">>)]
SavedStore ==
    Saved("tracker", SavedProfile, [i \in Days |-> initialDailyLog], initialMetrics)
\* A store left by a session that also recorded the weight of two days.
LoggedWeek ==
    [i \in Days |->
        IF i = 1 THEN [initialDailyLog EXCEPT !.weight = Num(70)]
        ELSE IF i = 3 THEN [initialDailyLog EXCEPT !.weight = Num(68)]
        ELSE initialDailyLog]
LoggedStore == Saved("tracker", SavedProfile, LoggedWeek, initialMetrics)
InitialStores == {EmptyStore, SavedStore}

\* The state of a freshly loaded page over store s (mount and first effects).
Boot(s) ==
    [view |-> MountView(LoadView(s), LoadProfile(s)),
     profile |-> LoadProfile(s),
     weeklyLog |-> LoadWeeklyLog(s),
     heap |-> LoadHeap(s),
     metrics |-> LoadMetrics(s)]

\* The page is loaded over one of the given stores.
InitOver(stores) ==
    \E s \in stores :
        /\ view = Boot(s).view
        /\ profile = Boot(s).profile
        /\ weeklyLog = Boot(s).weeklyLog
        /\ heap = Boot(s).heap
        /\ metrics = Boot(s).metrics
        /\ currentDayIndex = 0
        /\ summary = NULL
        /\ loading = FALSE
        /\ errors = {}
        /\ inflight = <<>>
        /\ alert = "none"
        /\ store = Saved(view, profile, Log, metrics)
        /\ edits = 0
        /\ faults = 0
        /\ doc = NoDoc
        /\ call = NoCall

Init == InitOver(InitialStores)

\* Store s after the entries of the keys in ok are written from new.
Written(s, new, ok) ==
    [view |-> IF "view" \in ok THEN new.view ELSE s.view,
     profile |-> IF "profile" \in ok THEN new.profile ELSE s.profile,
     log |-> IF "log" \in ok THEN new.log ELSE s.log,
     metrics |-> IF "metrics" \in ok THEN new.metrics ELSE s.metrics,
     unreadable |-> s.unreadable \ ok,
     full |-> s.full]

\* What a handler's state updates are followed by: the effect of each sticky
\* state whose value changed saves it; a setItem that throws is caught and
\* leaves the entry as it was.
Persist(changed) ==
    /\ store' =
          IF store.full THEN store
          ELSE Written(store, Saved(view', profile', LogOf(heap', weeklyLog'), metrics'),
                       changed)
    /\ UNCHANGED faults

\* The browser reloads the page: the state is rebuilt from the store, what
\* is not sticky starts over and the pending promises are gone. The effects
\* of the first render save every key, and the view again when the mount
\* effect changes it.
Reload ==
    /\ currentDayIndex' = 0
    /\ summary' = NULL
    /\ loading' = FALSE
    /\ errors' = {}
    /\ inflight' = <<>>
    /\ alert' = "none"
    /\ doc' = NoDoc
    /\ profile' = LoadProfile(store)
    /\ view' = MountView(LoadView(store), profile')
    /\ metrics' = LoadMetrics(store)
    /\ weeklyLog' = LoadWeeklyLog(store)
    /\ heap' = LoadHeap(store)
    /\ UNCHANGED <<edits, call>>
    /\ Persist(StoreKeys)

\* Something else writes a text that is not JSON under one of the keys.
Corrupt(key) ==
    /\ faults < MaxFaults
    /\ store' = [store EXCEPT ![key] = <<>>, !.unreadable = @ \cup {key}]
    /\ faults' = faults + 1
    /\ UNCHANGED <<view, profile, weeklyLog, heap, metrics, currentDayIndex, summary,
                   loading, errors, inflight, alert, edits, doc, call>>

\* The storage runs out of space, and space is made again.
StoreFills ==
    /\ faults < MaxFaults
    /\ ~store.full
    /\ store' = [store EXCEPT !.full = TRUE]
    /\ faults' = faults + 1
    /\ UNCHANGED <<view, profile, weeklyLog, heap, metrics, currentDayIndex, summary,
                   loading, errors, inflight, alert, edits, doc, call>>

StoreFrees ==
    /\ store.full
    /\ store' = [store EXCEPT !.full = FALSE]
    /\ UNCHANGED <<view, profile, weeklyLog, heap, metrics, currentDayIndex, summary,
                   loading, errors, inflight, alert, edits, faults, doc, call>>

\* Which screen App renders.
ProfileShown == view = "profile" \/ profile = NULL
TrackerShown == ~ProfileShown

\* ---------------------------------------------------------------- profile
ProfileNumberFields == {"age", "initialWeight", "weightGoal"}

\* handleProfileChange: the field takes the input's value, a string.
handleProfileChange(name, value) ==
    /\ ProfileShown
    /\ edits < MaxEdits
    /\ profile' = [(IF profile = NULL THEN initialProfile ELSE profile)
                      EXCEPT ![name] = IF name \in ProfileNumberFields THEN Str(value) ELSE value]
    /\ edits' = edits + 1
    /\ heap' = Swept
    /\ alert' = "none"
    /\ UNCHANGED <<view, weeklyLog, metrics, currentDayIndex, summary, loading,
                   errors, inflight, doc, call>>
    /\ Persist({"profile"})

\* validateProfile: the keys of newErrors.
ProfileErrors(p) ==
    IF p = NULL THEN {"form"}
    ELSE {f \in {"name"} : trim(p.name) = <<>>}
         \cup {f \in {"objective"} : trim(p.objective) = <<>>}
         \cup {f \in ProfileNumberFields : ~TruthyVal(p[f]) \/ LeZero(p[f])}

validateProfile(p) == ProfileErrors(p) = {}

\* handleProfileSave
handleProfileSave ==
    /\ ProfileShown
    /\ errors' = ProfileErrors(profile)
    /\ view' = IF validateProfile(profile) THEN "tracker" ELSE view
    /\ heap' = Swept
    /\ alert' = "none"
    /\ UNCHANGED <<profile, weeklyLog, metrics, currentDayIndex, summary, loading,
                   inflight, edits, doc, call>>
    /\ Persist(IF view' # view THEN {"view"} ELSE {})

\* The "Mi Perfil" button of the tracker: setView('profile').
EditProfile ==
    /\ TrackerShown
    /\ view' = "profile"
    /\ heap' = Swept
    /\ alert' = "none"
    /\ UNCHANGED <<profile, weeklyLog, metrics, currentDayIndex, summary, loading,
                   errors, inflight, edits, doc, call>>
    /\ Persist({"view"})

\* ---------------------------------------------------------------- tracker
Max(a, b) == IF a > b THEN a ELSE b
Min(a, b) == IF a < b THEN a ELSE b

\* Day navigation; each button is disabled at its end of the week.
PrevDay ==
    /\ TrackerShown
    /\ currentDayIndex # 0
    /\ currentDayIndex' = Max(0, currentDayIndex - 1)
    /\ heap' = Swept
    /\ alert' = "none"
    /\ UNCHANGED <<view, profile, weeklyLog, metrics, summary, loading, errors,
                   inflight, store, faults, edits, doc, call>>

\* The next-day button never disabled and without Math.min.
NextDayUnclamped ==
    /\ TrackerShown
    /\ currentDayIndex' = currentDayIndex + 1
    /\ heap' = Swept
    /\ alert' = "none"
    /\ UNCHANGED <<view, profile, weeklyLog, metrics, summary, loading, errors,
                   inflight, store, faults, edits, doc, call>>

NextDay ==
    /\ TrackerShown
    /\ currentDayIndex # 6
    /\ currentDayIndex' = Min(6, currentDayIndex + 1)
    /\ heap' = Swept
    /\ alert' = "none"
    /\ UNCHANGED <<view, profile, weeklyLog, metrics, summary, loading, errors,
                   inflight, store, faults, edits, doc, call>>

\* The object that a spread at position i allocates: one that is not in use.
NewDayRef(i) == IF weeklyLog[i] = AllocA(i) THEN AllocB(i) ELSE AllocA(i)

\* handleLogChange: a copy of the array whose current day is a new object,
\* the spread of the old one with the named field replaced.
handleLogChange(name, value) ==
    LET i == currentDayIndex + 1
        old == heap[weeklyLog[i]]
        new == [old EXCEPT ![name] = IF name = "weight" THEN parseFloat(value) ELSE value]
    IN  /\ TrackerShown
        /\ edits < MaxEdits
        /\ heap' = [Swept EXCEPT ![NewDayRef(i)] = new]
        /\ weeklyLog' = [weeklyLog EXCEPT ![i] = NewDayRef(i)]
        /\ edits' = edits + 1
        /\ alert' = "none"
        /\ UNCHANGED <<view, profile, metrics, currentDayIndex, summary, loading,
                       errors, inflight, doc, call>>
        /\ Persist({"log"})

\* handleFoodChange: a copy of the array, but the food of the current day is
\* assigned on the day object that the copy shares with the old array.
handleFoodChange(name, value) ==
    LET i == currentDayIndex + 1
    IN  /\ TrackerShown
        /\ edits < MaxEdits
        /\ heap' = [Swept EXCEPT ![weeklyLog[i]].food[name] = value]
        /\ weeklyLog' = weeklyLog
        /\ edits' = edits + 1
        /\ alert' = "none"
        /\ UNCHANGED <<view, profile, metrics, currentDayIndex, summary, loading,
                       errors, inflight, doc, call>>
        /\ Persist({"log"})

\* handleMetricsChange
handleMetricsChange(name, value) ==
    /\ TrackerShown
    /\ edits < MaxEdits
    /\ metrics' = [metrics EXCEPT ![name] = value]
    /\ edits' = edits + 1
    /\ heap' = Swept
    /\ alert' = "none"
    /\ UNCHANGED <<view, profile, weeklyLog, currentDayIndex, summary, loading,
                   errors, inflight, doc, call>>
    /\ Persist({"metrics"})

\* The sticky states that a confirmed reset changes: a state that already
\* is the constant it is set to does not change, and an equal value that is
\* another object (a copy, or one parsed from the store) does; the model
\* does not tell these two apart and allows both.
ResetChanged ==
    {c \in SUBSET {"log", "metrics"} :
        /\ weeklyLog # initialWeeklyLog => "log" \in c
        /\ metrics # initialMetrics => "metrics" \in c}

\* handleNewWeek with a setProfile(null) among the resets of a confirmed one.
handleNewWeekClearsProfile(confirmed) ==
    /\ TrackerShown
    /\ alert' = "none"
    /\ IF confirmed
       THEN /\ weeklyLog' = initialWeeklyLog
            /\ metrics' = initialMetrics
            /\ summary' = NULL
            /\ currentDayIndex' = 0
            /\ profile' = NULL
            /\ inflight' = [k \in 1..Len(inflight) |-> [inflight[k] EXCEPT !.weekReset = TRUE]]
            /\ heap' = Swept
            /\ UNCHANGED <<view, loading, errors, edits, doc, call>>
            /\ Persist({"log", "metrics", "profile"})
       ELSE UNCHANGED <<view, profile, weeklyLog, heap, metrics, currentDayIndex,
                        summary, loading, errors, inflight, store, faults, edits, doc, call>>

\* handleNewWeek without the test of window.confirm's answer.
handleNewWeekUnconfirmed(confirmed) ==
    /\ TrackerShown
    /\ alert' = "none"
    /\ weeklyLog' = initialWeeklyLog
    /\ metrics' = initialMetrics
    /\ summary' = NULL
    /\ currentDayIndex' = 0
    /\ inflight' = [k \in 1..Len(inflight) |-> [inflight[k] EXCEPT !.weekReset = TRUE]]
    /\ heap' = Swept
    /\ UNCHANGED <<view, profile, loading, errors, edits, doc, call>>
    /\ Persist({"log", "metrics"})

\* handleNewWeek, for either answer to window.confirm. A call in flight is
\* marked as issued for a week that is no longer the active one (its
\* weekReset field records history; the handler does not touch the call).
handleNewWeek(confirmed) ==
    /\ TrackerShown
    /\ alert' = "none"
    /\ IF confirmed
       THEN /\ weeklyLog' = initialWeeklyLog
            /\ metrics' = initialMetrics
            /\ summary' = NULL
            /\ currentDayIndex' = 0
            /\ inflight' = [k \in 1..Len(inflight) |-> [inflight[k] EXCEPT !.weekReset = TRUE]]
            /\ heap' = Swept
            /\ UNCHANGED <<view, profile, loading, errors, edits, doc, call>>
            /\ \E changed \in ResetChanged : Persist(changed)
       ELSE UNCHANGED <<view, profile, weeklyLog, heap, metrics, currentDayIndex,
                        summary, loading, errors, inflight, store, faults, edits, doc, call>>

\* ---------------------------------------------------------------- report
\* Array.prototype.filter(Boolean) on strings, and join
RECURSIVE FilterBoolean(_)
FilterBoolean(parts) ==
    IF parts = <<>> THEN <<>>
    ELSE IF Head(parts) # "" THEN <<Head(parts)>> \o FilterBoolean(Tail(parts))
    ELSE FilterBoolean(Tail(parts))

RECURSIVE Join(_, _)
Join(parts, sep) ==
    IF parts = <<>> THEN ""
    ELSE IF Len(parts) = 1 THEN parts[1]
    ELSE parts[1] \o sep \o Join(Tail(parts), sep)

SomeFood(day) == \E f \in FoodNames : Truthy(day.food[f])

\* The dayData string of one day: the parts that are set, joined. A part
\* whose condition fails is false or '', which filter(Boolean) drops.
DayData(day) ==
    Join(FilterBoolean(<<
        IF GtZero(day.weight) THEN "Peso: " \o ToString(day.weight.v) \o " kg" ELSE "",
        IF SomeFood(day)
        THEN "Comidas: Desayuno(" \o day.food["breakfast"] \o "), Almuerzo("
             \o day.food["lunch"] \o "), Merienda(" \o day.food["snack"] \o "), Cena("
             \o day.food["dinner"] \o "), Otros(" \o day.food["other"] \o ")"
        ELSE "",
        IF Truthy(day.mood) THEN "Sensaciones: " \o day.mood ELSE "",
        "Nivel de Actividad: " \o day.activityLevel
    >>), "; ")

\* The line of day i (1..7) in the prompt, as the pieces of its template
\* literal, or <<>> for the empty string.
DayLine(day, i) ==
    IF DayData(day) # "" THEN <<"- ", dayNames[i], ": ", DayData(day)>> ELSE <<>>

RECURSIVE FilterLines(_)
FilterLines(lines) ==
    IF lines = <<>> THEN <<>>
    ELSE IF Head(lines) # <<>> THEN <<Head(lines)>> \o FilterLines(Tail(lines))
    ELSE FilterLines(Tail(lines))

\* The DATOS DE LA SEMANA section of the prompt: its lines, in order.
PromptDayLines(log) == FilterLines([i \in Days |-> DayLine(log[i], i)])

\* hasData without its metrics clause.
hasDataDaysOnly(log, m) ==
    \E i \in Days : GtZero(log[i].weight) \/ SomeFood(log[i]) \/ Truthy(log[i].mood)

\* hasData
hasData(log, m) ==
    \/ \E i \in Days : GtZero(log[i].weight) \/ SomeFood(log[i]) \/ Truthy(log[i].mood)
    \/ \E n \in MetricNames : Truthy(m[n])

\* The generate button without its disabled attribute.
GenerateAlwaysEnabled == TrackerShown

\* The generate button is rendered by the tracker and disabled while loading.
GenerateEnabled == TrackerShown /\ ~loading

\* generateSummary with setSummary(null) moved below the test of hasData.
generateSummaryChecksFirst ==
    /\ GenerateEnabled
    /\ Len(inflight) < MaxInflight
    /\ IF ~hasData(Log, metrics)
       THEN /\ alert' = "noData"
            /\ loading' = FALSE
            /\ UNCHANGED <<inflight, summary>>
       ELSE /\ summary' = NULL
            /\ loading' = TRUE
            /\ inflight' = Append(inflight, [weekReset |-> FALSE, dayLines |-> PromptDayLines(Log)])
            /\ alert' = "none"
    /\ heap' = Swept
    /\ UNCHANGED <<view, profile, weeklyLog, metrics, currentDayIndex, errors,
                   store, faults, edits, doc, call>>

\* generateSummary without the setSummary(null) of its second line.
generateSummaryKeepsSummary ==
    /\ GenerateEnabled
    /\ Len(inflight) < MaxInflight
    /\ IF ~hasData(Log, metrics)
       THEN /\ alert' = "noData"
            /\ loading' = FALSE
            /\ UNCHANGED inflight
       ELSE /\ loading' = TRUE
            /\ inflight' = Append(inflight, [weekReset |-> FALSE, dayLines |-> PromptDayLines(Log)])
            /\ alert' = "none"
    /\ heap' = Swept
    /\ UNCHANGED <<view, profile, weeklyLog, metrics, currentDayIndex, summary, errors,
                   store, faults, edits, doc, call>>

\* generateSummary up to its await: the no-data exit, or the provider call.
generateSummary ==
    /\ GenerateEnabled
    /\ Len(inflight) < MaxInflight
    /\ summary' = NULL
    /\ IF ~hasData(Log, metrics)
       THEN /\ alert' = "noData"
            /\ loading' = FALSE
            /\ UNCHANGED inflight
       ELSE /\ loading' = TRUE
            /\ inflight' = Append(inflight, [weekReset |-> FALSE, dayLines |-> PromptDayLines(Log)])
            /\ alert' = "none"
    /\ heap' = Swept
    /\ UNCHANGED <<view, profile, weeklyLog, metrics, currentDayIndex, errors,
                   store, faults, edits, doc, call>>

RemoveAt(q, k) == SubSeq(q, 1, k - 1) \o SubSeq(q, k + 1, Len(q))

\* The promise of call k resolves with text: the try block and finally.
ProviderResolve(k, text) ==
    /\ k \in 1..Len(inflight)
    /\ summary' = [content |-> text]
    /\ loading' = FALSE
    /\ inflight' = RemoveAt(inflight, k)
    /\ heap' = Swept
    /\ alert' = "none"
    /\ UNCHANGED <<view, profile, weeklyLog, metrics, currentDayIndex, errors, store, faults, edits, doc, call>>

\* The rejection handled without the finally block.
ProviderRejectNoFinally(k) ==
    /\ k \in 1..Len(inflight)
    /\ alert' = "genError"
    /\ inflight' = RemoveAt(inflight, k)
    /\ heap' = Swept
    /\ UNCHANGED <<view, profile, weeklyLog, metrics, currentDayIndex, summary, loading,
                   errors, store, faults, edits, doc, call>>

\* The promise of call k rejects: catch and finally.
ProviderReject(k) ==
    /\ k \in 1..Len(inflight)
    /\ alert' = "genError"
    /\ loading' = FALSE
    /\ inflight' = RemoveAt(inflight, k)
    /\ heap' = Swept
    /\ UNCHANGED <<view, profile, weeklyLog, metrics, currentDayIndex, summary,
                   errors, store, faults, edits, doc, call>>

\* --------------------------------------------------------------- progress
\* The operators of JavaScript that calculateProgress applies to its
\* arguments, which at run time are numbers or the strings of the profile.

\* The code unit of a character of a numeric input.
CharCode(c) == IF c = "-" THEN 45 ELSE 48 + DigitVal(c)

\* s < t for two strings: by code units, a proper prefix first.
RECURSIVE StrLess(_, _)
StrLess(s, t) ==
    IF t = <<>> THEN FALSE
    ELSE IF s = <<>> THEN TRUE
    ELSE IF s[1] # t[1] THEN CharCode(s[1]) < CharCode(t[1])
    ELSE StrLess(Tail(s), Tail(t))

\* a === b
StrictEq(a, b) == a.k # "nan" /\ b.k # "nan" /\ a = b

\* a > b and a >= b: two strings compare as strings, anything else as numbers.
Gt(a, b) ==
    IF a.k = "str" /\ b.k = "str" THEN StrLess(b.s, a.s)
    ELSE ToNumber(a).k = "num" /\ ToNumber(b).k = "num" /\ ToNumber(a).v > ToNumber(b).v
Ge(a, b) ==
    IF a.k = "str" /\ b.k = "str" THEN ~StrLess(a.s, b.s)
    ELSE ToNumber(a).k = "num" /\ ToNumber(b).k = "num" /\ ToNumber(a).v >= ToNumber(b).v
Le(a, b) == Ge(b, a)

\* a - b and Math.abs
Sub(a, b) ==
    IF ToNumber(a).k = "num" /\ ToNumber(b).k = "num"
    THEN Num(ToNumber(a).v - ToNumber(b).v) ELSE NaN
Abs(x) == IF x.k = "num" /\ x.v < 0 THEN Num(0 - x.v) ELSE x

\* Number.prototype.toFixed(2) of a whole number or NaN
toFixed2(x) == IF x.k = "num" THEN ToString(x.v) \o ".00" ELSE "NaN"

\* A percentage as an exact fraction n/d in lowest terms, or NaN.
RECURSIVE Gcd(_, _)
Gcd(a, b) == IF b = 0 THEN a ELSE Gcd(b, a % b)
Frac(n, d) == [k |-> "num", n |-> n \div Gcd(n, d), d |-> d \div Gcd(n, d)]
NaNProgress == [k |-> "nan", n |-> 0, d |-> 1]

\* The six status sentences and the one of initial === goal, as the pieces
\* of their template literals.
TextAtGoal == <<"Ya estas en tu peso meta!">>
TextMet(over) ==
    <<"Felicidades! Has alcanzado y superado tu meta por ", toFixed2(over), " kg.">>
TextGained(moved, diff) ==
    <<"Has ganado ", toFixed2(moved), " kg. Te faltan ", toFixed2(diff), " kg para tu meta!">>
TextLostAway(moved, diff) ==
    <<"Has perdido ", toFixed2(moved), " kg. Estas a ", toFixed2(diff), " kg de tu meta.">>
TextLost(moved, diff) ==
    <<"Has perdido ", toFixed2(moved), " kg. Te faltan ", toFixed2(diff), " kg para tu meta!">>
TextGainedAway(moved, diff) ==
    <<"Has ganado ", toFixed2(moved), " kg. Estas a ", toFixed2(diff), " kg de tu meta.">>

\* (distanceCovered / totalDistance) * 100 without Math.max and Math.min.
UnclampedPercent(distanceCovered, totalDistance) ==
    IF distanceCovered.k # "num" \/ totalDistance.k # "num" THEN NaNProgress
    ELSE IF totalDistance.v = 0 THEN NaNProgress
    ELSE Frac(100 * distanceCovered.v, totalDistance.v)

\* Math.max(0, Math.min((distanceCovered / totalDistance) * 100, 100)), for
\* a totalDistance that is not negative; a division by 0 gives an infinity
\* that is clamped, or NaN for 0 / 0.
ClampedPercent(distanceCovered, totalDistance) ==
    IF distanceCovered.k # "num" \/ totalDistance.k # "num" THEN NaNProgress
    ELSE IF totalDistance.v = 0
         THEN IF distanceCovered.v = 0 THEN NaNProgress
              ELSE IF distanceCovered.v > 0 THEN Frac(100, 1) ELSE Frac(0, 1)
    ELSE IF distanceCovered.v <= 0 THEN Frac(0, 1)
    ELSE IF distanceCovered.v >= totalDistance.v THEN Frac(100, 1)
    ELSE Frac(100 * distanceCovered.v, totalDistance.v)

\* calculateProgress past its first line: the percentage
ProgressPercent(initial, current, goal) ==
    LET totalDistance == Abs(Sub(goal, initial))
        distanceCovered ==
            IF Gt(goal, initial) THEN Sub(current, initial) ELSE Sub(initial, current)
    IN  ClampedPercent(distanceCovered, totalDistance)

\* The status sentence chosen with current > goal and current < goal.
ProgressTextStrict(initial, current, goal) ==
    LET diff == Abs(Sub(current, goal))
    IN  IF Gt(goal, initial)
        THEN IF Gt(current, goal) THEN TextMet(Abs(Sub(current, goal)))
             ELSE IF Ge(current, initial) THEN TextGained(Abs(Sub(current, initial)), diff)
             ELSE TextLostAway(Abs(Sub(current, initial)), diff)
        ELSE IF Gt(goal, current) THEN TextMet(Abs(Sub(current, goal)))
             ELSE IF Le(current, initial) THEN TextLost(Abs(Sub(initial, current)), diff)
             ELSE TextGainedAway(Abs(Sub(current, initial)), diff)

\* calculateProgress past its first line: the status sentence
ProgressText(initial, current, goal) ==
    LET diff == Abs(Sub(current, goal))
    IN  IF Gt(goal, initial)
        THEN IF Ge(current, goal) THEN TextMet(Abs(Sub(current, goal)))
             ELSE IF Ge(current, initial) THEN TextGained(Abs(Sub(current, initial)), diff)
             ELSE TextLostAway(Abs(Sub(current, initial)), diff)
        ELSE IF Le(current, goal) THEN TextMet(Abs(Sub(current, goal)))
             ELSE IF Le(current, initial) THEN TextLost(Abs(Sub(initial, current)), diff)
             ELSE TextGainedAway(Abs(Sub(current, initial)), diff)

\* calculateProgress with its first line comparing initial to current.
calculateProgressAtStart(initial, current, goal) ==
    IF StrictEq(initial, current)
    THEN [progress |-> Frac(100, 1), progressText |-> TextAtGoal]
    ELSE [progress |-> ProgressPercent(initial, current, goal),
          progressText |-> ProgressText(initial, current, goal)]

\* calculateProgress
calculateProgress(initial, current, goal) ==
    IF StrictEq(initial, goal)
    THEN [progress |-> Frac(100, 1), progressText |-> TextAtGoal]
    ELSE [progress |-> ProgressPercent(initial, current, goal),
          progressText |-> ProgressText(initial, current, goal)]

\* weeklyLog.filter(d => d.weight > 0)
RECURSIVE FilterWeighed(_)
FilterWeighed(days) ==
    IF days = <<>> THEN <<>>
    ELSE IF GtZero(Head(days).weight) THEN <<Head(days)>> \o FilterWeighed(Tail(days))
    ELSE FilterWeighed(Tail(days))

\* The current weight taken from the first day with a weight, not the last.
lastWeightFirst(log, p) ==
    LET weighed == FilterWeighed(log)
    IN  IF weighed = <<>> THEN p.initialWeight ELSE weighed[1].weight

\* filter(...).pop()?.weight ?? profile.initialWeight, as TrackerScreen and
\* handleShareSummary both write it
lastWeight(log, p) ==
    LET weighed == FilterWeighed(log)
    IN  IF weighed = <<>> THEN p.initialWeight ELSE weighed[Len(weighed)].weight

\* The progress that TrackerScreen computes when it renders.
TrackerProgress ==
    calculateProgress(profile.initialWeight, lastWeight(Log, profile), profile.weightGoal)

\* ----------------------------------------------------------------- export
\* The jsPDF document as handleShareSummary leaves it when doc.html starts
\* to lay out the report body: one page (title, profile table, progress bar
\* and status sentence), no footer on it.
NewDoc ==
    LET current == lastWeight(Log, profile)
        result == calculateProgress(profile.initialWeight, current, profile.weightGoal)
    IN  [phase |-> "layout", pages |-> 1, footers |-> << <<>> >>, current |-> current,
         progress |-> result.progress, progressText |-> result.progressText]

\* addFooters: on each page, from 1 to the number of pages read when it
\* starts, the text "Pagina i de pageCount".
addFooters(d) ==
    LET pageCount == d.pages
    IN  [d EXCEPT !.footers =
            [i \in 1..Len(d.footers) |->
                IF i <= pageCount
                THEN Append(d.footers[i], [page |-> i, of |-> pageCount])
                ELSE d.footers[i]]]

\* The download button rendered by the tracker whatever the summary is.
ShareAlwaysEnabled == TrackerShown

\* The download button is rendered with a summary and not while loading.
ShareEnabled == TrackerShown /\ summary # NULL /\ ~loading

\* handleShareSummary with addFooters called before doc.html.
handleShareSummaryEarlyFooters ==
    /\ ShareEnabled
    /\ doc' = addFooters(NewDoc)
    /\ heap' = Swept
    /\ alert' = "none"
    /\ UNCHANGED <<view, profile, weeklyLog, metrics, currentDayIndex, summary, loading,
                   errors, inflight, store, faults, edits, call>>

\* handleShareSummary up to the call of doc.html
handleShareSummary ==
    /\ ShareEnabled
    /\ doc' = NewDoc
    /\ heap' = Swept
    /\ alert' = "none"
    /\ UNCHANGED <<view, profile, weeklyLog, metrics, currentDayIndex, summary, loading,
                   errors, inflight, store, faults, edits, call>>

\* doc.html lays out the report body, which overflows onto one more page.
HtmlAddPage ==
    /\ doc.phase = "layout"
    /\ doc.pages < MaxPages
    /\ doc' = [doc EXCEPT !.pages = @ + 1, !.footers = Append(@, <<>>)]
    /\ UNCHANGED <<view, profile, weeklyLog, heap, metrics, currentDayIndex, summary,
                   loading, errors, inflight, alert, store, faults, edits, call>>

\* doc.html is done with the layout and calls back: addFooters, doc.save.
HtmlCallback ==
    /\ doc.phase = "layout"
    /\ doc' = [addFooters(doc) EXCEPT !.phase = "saved"]
    /\ UNCHANGED <<view, profile, weeklyLog, heap, metrics, currentDayIndex, summary,
                   loading, errors, inflight, alert, store, faults, edits, call>>

\* ---------------------------------------------------------------- machine
ProfileEdit ==
    \/ \E v \in NameInputs : handleProfileChange("name", v)
    \/ \E v \in ObjectiveInputs : handleProfileChange("objective", v)
    \/ \E f \in ProfileNumberFields, v \in NumberInputs : handleProfileChange(f, v)

LogEdit ==
    \/ \E v \in WeightInputs : handleLogChange("weight", v)
    \/ \E v \in TextInputs : handleLogChange("mood", v)
    \/ \E v \in ActivityInputs : handleLogChange("activityLevel", v)

FoodEdit == \E f \in FoodNames, v \in TextInputs : handleFoodChange(f, v)

MetricsEdit == \E n \in MetricNames, v \in TextInputs : handleMetricsChange(n, v)

NewWeek == \E confirmed \in BOOLEAN : handleNewWeek(confirmed)

Resolve == \E k \in 1..MaxInflight, t \in Replies : ProviderResolve(k, t)

Reject == \E k \in 1..MaxInflight : ProviderReject(k)

Damage == \E key \in StoreKeys : Corrupt(key)

Next ==
    \/ ProfileEdit
    \/ handleProfileSave
    \/ EditProfile
    \/ PrevDay
    \/ NextDay
    \/ LogEdit
    \/ FoodEdit
    \/ MetricsEdit
    \/ NewWeek
    \/ generateSummary
    \/ Resolve
    \/ Reject
    \/ Reload

Spec == Init /\ [][Next]_vars

TypeOK ==
    /\ view \in {"profile", "tracker"}
    /\ currentDayIndex \in 0..6
    /\ loading \in BOOLEAN
    /\ Len(inflight) <= MaxInflight
    /\ edits \in 0..MaxEdits
    /\ faults \in 0..MaxFaults
    /\ doc.phase \in {"none", "layout", "saved"}

\* The promise of a provider call settles sooner or later, one way or the
\* other, and the event loop then runs the continuation of generateSummary.
LiveSpec == Spec /\ WF_vars(Resolve \/ Reject)

\* The tracker with its document export, over a store in which data of a
\* week is recorded.
ExportNext ==
    \/ Next
    \/ handleShareSummary
    \/ HtmlAddPage
    \/ HtmlCallback

ExportInit == InitOver({LoggedStore})

ExportSpec == ExportInit /\ [][ExportNext]_vars

\* The tracker over a storage that can be damaged from outside.
StoreNext ==
    \/ Next
    \/ Damage
    \/ StoreFills
    \/ StoreFrees

StoreSpec == Init /\ [][StoreNext]_vars

\* ------------------------------------------------------------- calculator
\* calculateProgress applied on its own to three numbers: the weights of
\* the examples of the specification and the small ones.
CalcWeights == {60, 70, 72, 75, 80} \cup (1..MaxWeight)

CalcInit ==
    /\ view = Boot(EmptyStore).view
    /\ profile = Boot(EmptyStore).profile
    /\ weeklyLog = Boot(EmptyStore).weeklyLog
    /\ heap = Boot(EmptyStore).heap
    /\ metrics = Boot(EmptyStore).metrics
    /\ currentDayIndex = 0
    /\ summary = NULL
    /\ loading = FALSE
    /\ errors = {}
    /\ inflight = <<>>
    /\ alert = "none"
    /\ store = Saved(view, profile, Log, metrics)
    /\ edits = 0
    /\ faults = 0
    /\ doc = NoDoc
    /\ \E i \in CalcWeights, c \in CalcWeights, g \in CalcWeights :
          call = [made |-> FALSE, initial |-> Num(i), current |-> Num(c), goal |-> Num(g)]

CalcApply ==
    /\ ~call.made
    /\ call' = [made |-> TRUE, initial |-> call.initial, current |-> call.current,
                goal |-> call.goal,
                result |-> calculateProgress(call.initial, call.current, call.goal)]
    /\ UNCHANGED <<view, profile, weeklyLog, heap, metrics, currentDayIndex, summary,
                   loading, errors, inflight, alert, store, edits, faults, doc>>

CalcSpec == CalcInit /\ [][CalcApply]_vars

\* ---------------------------------------------------------------- claims
\* A blank day, in the words of the specification.
BlankDay(d) ==
    /\ d.weight = Num(0)
    /\ \A f \in FoodNames : d.food[f] = ""
    /\ d.mood = ""
    /\ d.activityLevel = "Moderado"

\* C1: a confirmed resetWeek leaves a weekly log of exactly 7 entries, each
\* of them blank (weight 0, five empty food fields, empty mood, activity
\* level Moderado), every Metrics field empty and no Summary.
C1_ResetYieldsBlankWeek ==
    [][handleNewWeek(TRUE) =>
          /\ DOMAIN weeklyLog' = 1..7
          /\ \A i \in 1..7 : BlankDay(LogOf(heap', weeklyLog')[i])
          /\ \A n \in MetricNames : metrics'[n] = ""
          /\ summary' = NULL]_vars

\* C2: the result of a generation request that was issued before a confirmed
\* resetWeek is discarded when it resolves: Summary stays absent and never
\* holds a report requested for an earlier week.
C2_StaleResultDiscarded ==
    [][\A k \in 1..MaxInflight, t \in Replies :
          (ProviderResolve(k, t) /\ inflight[k].weekReset) => summary' = NULL]_vars

\* A day with recorded data, in the words of the specification.
DayRecorded(d) ==
    \/ d.weight.k = "num" /\ d.weight.v > 0
    \/ \E f \in FoodNames : d.food[f] # ""
    \/ d.mood # ""

HasLine(lines, i) == \E n \in 1..Len(lines) : lines[n][2] = dayNames[i]

\* C3: the prompt that generateSummary sends has a line for day d if and
\* only if that day has weight > 0, a non-empty food field or a non-empty
\* mood; a day with nothing but its activity level has no line.
C3_DayLineIffRecorded ==
    [][(generateSummary /\ Len(inflight') = Len(inflight) + 1) =>
          \A i \in Days :
              HasLine(inflight'[Len(inflight')].dayLines, i) <=> DayRecorded(Log[i])]_vars

\* C4: the loading flag is never set without a request pending, and every
\* invocation of generateSummary leads to a state where it is cleared.
C4_LoadingCleared ==
    /\ [](loading => Len(inflight) > 0)
    /\ (loading ~> ~loading)

C4_Witness == alert = "genError" /\ ~loading /\ inflight = <<>>

\* C5: at most one report-generation request is outstanding at any time.
C5_SingleRequest == Len(inflight) <= 1

C5_Witness ==
    /\ Len(inflight) = 1
    /\ view = "profile"
    /\ inflight[1].weekReset

\* Some data is recorded, in the words of the specification.
AnyRecorded ==
    \/ \E i \in Days : DayRecorded(Log[i])
    \/ \E n \in MetricNames : metrics[n] # ""

\* C6: generateSummary calls the provider if and only if some day has a
\* weight > 0, a food field or a mood, or some Metrics field is set; else
\* no call is made and the user is told that there is no data.
C6_CallIffData ==
    [][generateSummary =>
          /\ (Len(inflight') = Len(inflight) + 1) <=> AnyRecorded
          /\ ~AnyRecorded => (inflight' = inflight /\ alert' = "noData")]_vars

C6_Witness == alert = "noData" /\ inflight = <<>> /\ ~loading /\ edits > 0

\* C7: when the provider call fails, Summary is absent afterwards; when it
\* succeeds, Summary is exactly the returned text.
C7_SummaryAfterSettle ==
    [][/\ \A k \in 1..MaxInflight : ProviderReject(k) => summary' = NULL
       /\ \A k \in 1..MaxInflight, t \in Replies :
              ProviderResolve(k, t) => summary' = [content |-> t]]_vars

C7_Witness == alert = "genError" /\ summary = NULL /\ view = "profile"

\* C8: no mutation (of a day, of its food, of the metrics, or a week reset)
\* modifies an object that an earlier value reaches: the day objects of the
\* log as it was before the operation, and those of the blank default week,
\* are unchanged after it.
C8_NoInPlaceMutation ==
    [][(LogEdit \/ FoodEdit \/ MetricsEdit \/ handleNewWeek(TRUE)) =>
          \A r \in Live : heap'[r] = heap[r]]_vars

\* C9: an empty or non-numeric weight input stores the weight 0, and the
\* weight of each of the 7 days is always a number >= 0.
C9_WeightIsNonNegativeNumber ==
    [][/\ \A i \in Days :
              LET w == LogOf(heap', weeklyLog')[i].weight
              IN  w.k = "num" /\ w.v >= 0
       /\ \A v \in WeightInputs :
              (handleLogChange("weight", v) /\ parseFloat(v).k # "num") =>
                  LogOf(heap', weeklyLog')[currentDayIndex + 1].weight = Num(0)]_vars

\* A complete profile, in the words of the specification.
ProfileComplete(p) ==
    /\ p.name # <<>>
    /\ p.objective # <<>>
    /\ GtZero(p.age)
    /\ GtZero(p.initialWeight)
    /\ GtZero(p.weightGoal)

\* C10: whenever the tracking view is shown, the profile has a name, an
\* objective, and a positive age, initial weight and weight goal.
C10_TrackerNeedsCompleteProfile == TrackerShown => ProfileComplete(profile)

\* The progress of section 4.2 of the specification for whole numbers i
\* (initial), c (current) and g (goal) with i # g: the percentage and the
\* status sentence.
SpecPercent(i, c, g) ==
    LET covered == IF g > i THEN c - i ELSE i - c
        total == IF g > i THEN g - i ELSE i - g
    IN  IF covered <= 0 THEN Frac(0, 1)
        ELSE IF covered >= total THEN Frac(100, 1)
        ELSE Frac(100 * covered, total)

Dist(a, b) == Num(IF a > b THEN a - b ELSE b - a)

SpecText(i, c, g) ==
    IF g > i
    THEN IF c >= g THEN TextMet(Dist(c, g))
         ELSE IF c >= i THEN TextGained(Dist(c, i), Dist(c, g))
         ELSE TextLostAway(Dist(c, i), Dist(c, g))
    ELSE IF c <= g THEN TextMet(Dist(c, g))
         ELSE IF c <= i THEN TextLost(Dist(c, i), Dist(c, g))
         ELSE TextGainedAway(Dist(c, i), Dist(c, g))

\* C11: for a profile that the form accepts with weightGoal different from
\* initialWeight, the progress shown takes the gain direction exactly when
\* weightGoal is numerically greater than initialWeight, else the loss
\* direction, in the percentage and in the status sentence.
C11_DirectionIsNumeric ==
    (TrackerShown /\ validateProfile(profile)
        /\ ToNumber(profile.initialWeight).v # ToNumber(profile.weightGoal).v) =>
        LET i == ToNumber(profile.initialWeight).v
            c == ToNumber(lastWeight(Log, profile)).v
            g == ToNumber(profile.weightGoal).v
        IN  /\ TrackerProgress.progress = SpecPercent(i, c, g)
            /\ TrackerProgress.progressText = SpecText(i, c, g)

\* p <= q for two percentages
FracLe(p, q) == p.n * q.d <= q.n * p.d

\* C12: for positive I, C, G with I < G the progress is non-decreasing in
\* C, is 0 for C <= I, 100 for C >= G, below 100 for I <= C < G and always
\* within [0, 100]; for I > G the same holds mirrored.
C12_ProgressMonotoneClamped ==
    (call.made /\ call.initial # call.goal) =>
        LET i == call.initial.v
            c == call.current.v
            g == call.goal.v
            p == call.result.progress
            P(x) == calculateProgress(Num(i), Num(x), Num(g)).progress
        IN  /\ p.k = "num"
            /\ FracLe(Frac(0, 1), p) /\ FracLe(p, Frac(100, 1))
            /\ i < g =>
                  /\ c <= i => p = Frac(0, 1)
                  /\ c >= g => p = Frac(100, 1)
                  /\ (i <= c /\ c < g) => p # Frac(100, 1)
                  /\ \A x \in CalcWeights : c <= x => FracLe(p, P(x))
            /\ i > g =>
                  /\ c >= i => p = Frac(0, 1)
                  /\ c <= g => p = Frac(100, 1)
                  /\ (g < c /\ c <= i) => p # Frac(100, 1)
                  /\ \A x \in CalcWeights : c <= x => FracLe(P(x), p)

C12_Witness ==
    /\ call.made
    /\ call.initial = Num(1) /\ call.current = Num(2) /\ call.goal = Num(4)
    /\ call.result.progress = Frac(100, 3)

\* C13: for I = G and every C, calculateProgress returns progress 100 and
\* the sentence of a goal that is already met.
C13_EqualMeansMet ==
    (call.made /\ call.initial.v = call.goal.v) =>
        call.result = [progress |-> Frac(100, 1), progressText |-> TextAtGoal]

C13_Witness ==
    call.made /\ call.initial = call.goal /\ call.current # call.initial

\* C14: for I # G the status sentence is the one of exactly one of three
\* cases per direction (goal met or exceeded, progressing, regressed), with
\* the distances it reports; goal met or exceeded is chosen exactly when
\* progress is 100; I=80, G=70, C=75 gives 50 with 5 lost and 5 remaining,
\* and I=60, G=70, C=72 gives 100 with the goal exceeded by 2.
C14_StatusCases ==
    (call.made /\ call.initial # call.goal) =>
        LET i == call.initial.v
            c == call.current.v
            g == call.goal.v
            r == call.result
        IN  /\ r.progressText = SpecText(i, c, g)
            /\ (r.progressText = TextMet(Dist(c, g))) <=> (r.progress = Frac(100, 1))
            /\ (i = 80 /\ g = 70 /\ c = 75) =>
                  r = [progress |-> Frac(50, 1), progressText |-> TextLost(Num(5), Num(5))]
            /\ (i = 60 /\ g = 70 /\ c = 72) =>
                  r = [progress |-> Frac(100, 1), progressText |-> TextMet(Num(2))]

C14_Witness ==
    /\ call.made
    /\ call.initial = Num(80) /\ call.goal = Num(70) /\ call.current = Num(75)
    /\ call.result.progress = Frac(50, 1)

\* C15: declining the confirmation of the week reset changes nothing: the
\* weekly log, the metrics, the summary, the current day, the profile, the
\* view and the loading flag stay as they are, and no error is raised.
C15_DeclineIsNoOp ==
    [][handleNewWeek(FALSE) =>
          /\ LogOf(heap', weeklyLog') = Log
          /\ weeklyLog' = weeklyLog
          /\ metrics' = metrics
          /\ summary' = summary
          /\ currentDayIndex' = currentDayIndex
          /\ profile' = profile
          /\ view' = view
          /\ loading' = loading
          /\ errors' = errors
          /\ alert' = "none"]_vars

C15_Witness ==
    /\ TrackerShown
    /\ summary # NULL
    /\ currentDayIndex > 0
    /\ \E n \in MetricNames : metrics[n] # ""
    /\ alert = "none"

\* The footer that page i of a document of n pages is to carry.
PageFooter(i, n) == [page |-> i, of |-> n]

\* C16: while the report body of an export is being laid out no page has a
\* footer; the file is saved with every page i of its N pages carrying
\* exactly one footer, which reads page i of N, N being the final count.
C16_FootersAfterLayout ==
    /\ doc.phase = "layout" => \A i \in 1..Len(doc.footers) : doc.footers[i] = <<>>
    /\ doc.phase = "saved" =>
          /\ Len(doc.footers) = doc.pages
          /\ \A i \in 1..doc.pages : doc.footers[i] = <<PageFooter(i, doc.pages)>>

C16_Witness == doc.phase = "saved" /\ doc.pages = MaxPages /\ MaxPages > 1

\* C17: the persistent store never raises to its caller. A page load takes
\* the default for a key that is absent or unreadable and the stored value
\* for a readable key; a save that fails leaves the entry as it was and the
\* in-memory state as the handler set it, with no error shown.
C17_StoreNeverRaises ==
    [][/\ Reload =>
            LET ok(key) == key \notin store.unreadable /\ store[key] # <<>>
            IN  /\ profile' = IF ok("profile") THEN store.profile[1] ELSE NULL
                /\ metrics' = IF ok("metrics") THEN store.metrics[1] ELSE initialMetrics
                /\ LogOf(heap', weeklyLog') =
                      IF ok("log") THEN store.log[1] ELSE [i \in Days |-> initialDailyLog]
                /\ view' = MountView(IF ok("view") THEN store.view[1] ELSE "profile", profile')
                /\ alert' = "none"
       /\ (store.full /\ store'.full /\ faults' = faults) =>
            /\ store' = store
            /\ \A n \in MetricNames, v \in TextInputs :
                  handleMetricsChange(n, v) => metrics'[n] = v
            /\ \A v \in NameInputs :
                  handleProfileChange("name", v) => profile'.name = v
            /\ \A v \in WeightInputs :
                  handleLogChange("weight", v) =>
                      LogOf(heap', weeklyLog')[currentDayIndex + 1].weight = parseFloat(v)]_vars

C17_Witness ==
    /\ faults = 1
    /\ profile = NULL
    /\ view = "tracker"
    /\ store.profile = <<NULL>>

\* The current weight in the words of the specification: the weight of the
\* last day of the week that has a weight, else the initial weight.
SpecCurrentWeight ==
    LET weighed == {i \in Days : Log[i].weight.k = "num" /\ Log[i].weight.v > 0}
    IN  IF weighed = {} THEN profile.initialWeight
        ELSE Log[CHOOSE i \in weighed : \A j \in weighed : j <= i].weight

\* C18: the exporter passes to calculateProgress, as the tracker screen
\* does, the weight of the highest-indexed day whose weight is > 0, or the
\* initial weight of the profile when there is none, and so both obtain the
\* same progress and the same status sentence.
C18_SameCurrentWeight ==
    [][handleShareSummary =>
          /\ doc'.current = SpecCurrentWeight
          /\ lastWeight(Log, profile) = SpecCurrentWeight
          /\ doc'.progress = TrackerProgress.progress
          /\ doc'.progressText = TrackerProgress.progressText]_vars

C18_Witness ==
    /\ doc.phase = "layout"
    /\ doc.current = Num(68)
    /\ Log[1].weight = Num(70)
    /\ Log[3].weight = Num(68)

\* C19: the weekly log has exactly 7 entries in every reachable state.
C19_SevenDays == DOMAIN weeklyLog = 1..7 /\ DOMAIN Log = 1..7

C19_Witness ==
    /\ edits > 0
    /\ weeklyLog # initialWeeklyLog
    /\ summary # NULL
    /\ Len(weeklyLog) = 7

\* C20: the current day index is always within 0..6; the previous day of
\* day 0 is day 0, the next day of day 6 is day 6, and a confirmed week
\* reset sets it to 0.
C20_DayIndexInRange ==
    /\ [](currentDayIndex \in 0..6)
    /\ [][/\ PrevDay =>
               currentDayIndex' = IF currentDayIndex = 0 THEN 0 ELSE currentDayIndex - 1
          /\ NextDay =>
               currentDayIndex' = IF currentDayIndex = 6 THEN 6 ELSE currentDayIndex + 1
          /\ handleNewWeek(TRUE) => currentDayIndex' = 0]_vars

C20_Witness == currentDayIndex = 6 /\ TrackerShown /\ edits > 0

\* C21: the profile is altered by nothing but an explicit profile edit: a
\* week reset (confirmed or declined), a summary request and its settling,
\* an edit of a day, of its food or of the metrics and the day navigation
\* leave every field of the profile as it is, and so does every other step
\* that is not an edit of a profile field.
C21_ProfileOnlyEdited ==
    [][/\ (\/ NewWeek \/ generateSummary \/ Resolve \/ Reject
           \/ LogEdit \/ FoodEdit \/ MetricsEdit \/ PrevDay \/ NextDay) => profile' = profile
       /\ profile' # profile => ProfileEdit]_vars

\* A profile is there after a day was edited, a summary was requested and
\* the week was reset with the request still pending.
C21_Witness ==
    /\ profile = SavedProfile
    /\ edits > 0
    /\ inflight # <<>>
    /\ inflight[1].weekReset
    /\ weeklyLog = initialWeeklyLog

\* C22: generateSummary clears the summary before it tests for data: a
\* request leaves the summary absent whether or not it goes on to call the
\* provider, and one that is skipped for want of data, with a report on
\* screen before it, ends with no report, the no-data alert, no provider
\* call and loading false.
C22_SkippedRequestClearsSummary ==
    [][generateSummary =>
          /\ summary' = NULL
          /\ ~hasData(Log, metrics) =>
                /\ alert' = "noData"
                /\ inflight' = inflight
                /\ loading' = FALSE]_vars

\* A report is on screen, nothing is recorded and the button is enabled:
\* the state in which the request that is skipped clears a report.
C22_Witness ==
    /\ summary # NULL
    /\ ~hasData(Log, metrics)
    /\ ENABLED generateSummary

\* C23: an export of the document starts only in a state where a summary is
\* present, loading is false and a profile exists, and never while a
\* provider call is pending; neither its start nor its layout and saving
\* change the weekly log, the metrics, the summary, the profile or the
\* loading flag.
C23_ExportGuardAndFrame ==
    [][/\ handleShareSummary =>
            /\ summary # NULL
            /\ ~loading
            /\ profile # NULL
            /\ inflight = <<>>
       /\ (handleShareSummary \/ HtmlAddPage \/ HtmlCallback) =>
            /\ weeklyLog' = weeklyLog
            /\ LogOf(heap', weeklyLog') = Log
            /\ metrics' = metrics
            /\ summary' = summary
            /\ profile' = profile
            /\ loading' = loading]_vars

\* An export was started and saved with the report, the profile and the
\* recorded week in place.
C23_Witness ==
    /\ doc.phase = "saved"
    /\ summary # NULL
    /\ ~loading
    /\ profile = SavedProfile
    /\ inflight = <<>>
    /\ Log[1].weight = Num(70)

====
